---------------------------- MODULE Spec2Model ----------------------------
(***************************************************************************)
(* Model of server.py: a Starlette application that mounts the FastMCP SSE *)
(* transport and two info endpoints behind a bearer-token middleware.      *)
(*                                                                         *)
(* Python strings that the code inspects (the request path and the         *)
(* Authorization header) are sequences of one-character strings, so that   *)
(* startswith, slicing and rstrip are computed and not assumed.  Strings   *)
(* that are only passed around (messages, tool names) are TLA+ strings.    *)
(* An Optional[str] is a sequence of length 0 (None) or 1 (the string).    *)
(***************************************************************************)
EXTENDS Integers, Sequences, FiniteSets, TLC

(***************************************************************************)
(* Bounds of the model.                                                    *)
(***************************************************************************)
\* number of session identifiers the SSE transport can hand out
MaxSessions == 1
\* datetime.now() is drawn from 0..MaxTime
MaxTime == 1

(***************************************************************************)
(* Configuration constants.                                                *)
(***************************************************************************)
SERVER_NAME == "textbook-mcp-server"

AUTH_TOKEN == <<"f", "z", "-", "t", "e", "s", "t", "-", "1", "2", "3", "4", "5", "6">>

\* variant: nothing is public, /health needs the token too
PUBLIC_PATHS_none == <<>>

\* variant: the root page is public as well
PUBLIC_PATHS_with_root == << <<"/", "h", "e", "a", "l", "t", "h">>, <<"/">> >>

PUBLIC_PATHS == << <<"/", "h", "e", "a", "l", "t", "h">> >>

\* the literal "Bearer " of auth_header.startswith("Bearer ")
BearerPrefix == <<"B", "e", "a", "r", "e", "r", " ">>

(***************************************************************************)
(* Python helpers, computed on character sequences.                        *)
(***************************************************************************)
\* s.startswith(p)
startswith(s, p) == Len(s) >= Len(p) /\ SubSeq(s, 1, Len(p)) = p

\* s[n:]
SliceFrom(s, n) == SubSeq(s, n + 1, Len(s))

\* x in xs, for a Python list xs
In(x, xs) == \E i \in 1..Len(xs) : xs[i] = x

\* s.rstrip("/")
RECURSIVE rstrip_slash(_)
rstrip_slash(s) ==
    IF s # <<>> /\ s[Len(s)] = "/" THEN rstrip_slash(SubSeq(s, 1, Len(s) - 1)) ELSE s

\* Optional[str]
None == <<>>
Some(s) == <<s>>

\* JSONResponse(content, status_code=...) / PlainTextResponse
JSONResponse(content, status_code) == [status_code |-> status_code, body |-> content]

(***************************************************************************)
(* METADATA_DISCOVERY_DATA.  The free-text descriptions are left out; the  *)
(* keys, names, enum sizes and limits are those of the literal.            *)
(***************************************************************************)
METADATA_DISCOVERY_DATA ==
    [content_types |->
        << [type |-> "textbook", key_field |-> "textbook_uuid", display_field |-> "filename"],
           [type |-> "knowledge_point", key_field |-> "uuid",
            display_field |-> "knowledge_point_name"],
           [type |-> "question", key_field |-> "question_id",
            display_field |-> "question_title"] >>,
     relationships |->
        << [from |-> "textbook", to |-> "knowledge_point", relation |-> "contains"],
           [from |-> "knowledge_point", to |-> "question", relation |-> "has_exercises"] >>,
     available_tools |->
        << [name |-> "metadata_discovery"],
           [name |-> "semantic_search"],
           [name |-> "search_by_criteria"] >>,
     available_filters |->
        [question |-> {"difficulty", "question_type", "grade", "subject",
                       "knowledge_point_code"},
         knowledge_point |-> {"grade", "subject", "chapter", "textbook_uuid"},
         textbook |-> {"grade", "subject", "semester", "publisher"}],
     limitations |->
        [max_results_per_query |-> 50,
         max_concurrent_queries |-> 5,
         rate_limit |-> "100 requests per minute",
         query_timeout_ms |-> 10000],
     examples |-> [typical_workflows |-> 3]]

\* the names decorated with @mcp.tool()
RegisteredTools == {"metadata_discovery"}

(***************************************************************************)
(* Inputs.                                                                 *)
(***************************************************************************)
Methods == {"GET", "POST"}

Paths ==
    { <<"/">>,
      <<"/", "h", "e", "a", "l", "t", "h">>,
      <<"/", "h", "e", "a", "l", "t", "h", "/">>,
      <<"/", "s", "s", "e">>,
      <<"/", "m", "e", "s", "s", "a", "g", "e", "s">>,
      <<"/", "m", "e", "s", "s", "a", "g", "e", "s", "/">>,
      <<"/", "f", "o", "o">> }

\* values of the Authorization header; None is a request without the header
AuthHeaders ==
    { None,
      Some(<<>>),
      Some(<<"B", "a", "s", "i", "c", " ", "x", "y", "z">>),
      Some(<<"b", "e", "a", "r", "e", "r", " ", "f", "z", "-", "t", "e", "s", "t", "-",
             "1", "2", "3", "4", "5", "6">>),
      Some(<<"B", "e", "a", "r", "e", "r">>),
      Some(<<"B", "e", "a", "r", "e", "r", " ">>),
      Some(<<"B", "e", "a", "r", "e", "r", " ", "w", "r", "o", "n", "g">>),
      Some(<<"B", "e", "a", "r", "e", "r", " ", "f", "z", "-", "t", "e", "s", "t", "-",
             "1", "2", "3", "4", "5", "6">>),
      Some(<<"B", "e", "a", "r", "e", "r", " ", "F", "Z", "-", "T", "E", "S", "T", "-",
             "1", "2", "3", "4", "5", "6">>),
      Some(<<"B", "e", "a", "r", "e", "r", " ", "f", "z", "-", "t", "e", "s", "t", "-",
             "1", "2", "3", "4", "5", "6", " ">>),
      Some(<<"B", "e", "a", "r", "e", "r", " ", " ", "f", "z", "-", "t", "e", "s", "t", "-",
             "1", "2", "3", "4", "5", "6">>) }

SessionIds == 1..MaxSessions

\* the tool named by a posted invocation envelope; "" is a body that is no envelope
Envelopes == {"", "metadata_discovery", "semantic_search", "search_by_criteria"}

\* session_id = 0 is a request without the session_id query parameter
Requests ==
    [method : Methods, path : Paths, authorization : AuthHeaders,
     session_id : {0}, envelope : {""}]
    \cup
    [method : {"POST"}, path : { <<"/", "m", "e", "s", "s", "a", "g", "e", "s", "/">> },
     authorization : AuthHeaders, session_id : SessionIds, envelope : Envelopes]

NoRequest ==
    [method |-> "", path |-> <<>>, authorization |-> None, session_id |-> 0, envelope |-> ""]

NoResponse == [status_code |-> 0, body |-> [none |-> TRUE]]

NoResult == [isError |-> FALSE, content |-> [none |-> TRUE]]

VARIABLES
    pc,             \* where the request in flight is: idle, dispatch, call_next, respond
    request,        \* the request in flight
    filter,         \* the auth filter's state for it: unchecked, allowed, rejected
    forwarded,      \* the requests dispatch has passed to call_next for it
    handler,        \* the route handler that ran for it, "" if none
    tool,           \* the tool handler that ran for it, "" if none
    result,         \* what that tool handler returned
    response,       \* the response to it
    sessions,       \* the open event streams, by session identifier
    metadata,       \* the module global METADATA_DISCOVERY_DATA
    tools,          \* the names registered on mcp
    results,        \* history: every value metadata_discovery has returned
    observed,       \* history: one earlier exchange, kept for comparison
    rejectedBefore  \* history: some earlier request was rejected

vars ==
    <<pc, request, filter, forwarded, handler, tool, result, response, sessions,
      metadata, tools, results, observed, rejectedBefore>>

NoExchange == [path |-> <<>>, authorization |-> None, filter |-> "unchecked",
               response |-> NoResponse, result |-> NoResult]

Init ==
    /\ pc = "idle"
    /\ request = NoRequest
    /\ filter = "unchecked"
    /\ forwarded = <<>>
    /\ handler = ""
    /\ tool = ""
    /\ result = NoResult
    /\ response = NoResponse
    /\ sessions = {}
    /\ metadata = METADATA_DISCOVERY_DATA
    /\ tools = RegisteredTools
    /\ results = {}
    /\ observed = NoExchange
    /\ rejectedBefore = FALSE

(***************************************************************************)
(* AuthMiddleware.dispatch: the decision taken before call_next.           *)
(***************************************************************************)
Allowed == [filter |-> "allowed", response |-> NoResponse]

Rejected(resp) == [filter |-> "rejected", response |-> resp]

\* request.url.path in PUBLIC_PATHS
is_public(path) == In(path, PUBLIC_PATHS)

\* `not auth_header`: true of None and of the empty string
is_missing(auth_header) == auth_header = None \/ auth_header[1] = <<>>

\* variant: the prefix is tested without its trailing space
is_bearer_no_space(auth_header) ==
    startswith(auth_header[1], <<"B", "e", "a", "r", "e", "r">>)

\* auth_header.startswith("Bearer ")
is_bearer(auth_header) == startswith(auth_header[1], BearerPrefix)

\* variant: the slice starts one character early
token_of_off_by_one(auth_header) == SliceFrom(auth_header[1], 6)

\* token = auth_header[7:]
token_of(auth_header) == SliceFrom(auth_header[1], 7)

\* variant: the token only has to start with the secret
token_mismatch_prefix(token) == ~startswith(token, AUTH_TOKEN)

\* variant: once a request has been rejected no token is accepted any more
token_mismatch_lockout(token) == token # AUTH_TOKEN \/ rejectedBefore

\* token != AUTH_TOKEN
token_mismatch(token) == token # AUTH_TOKEN

\* dispatch(request), up to the point where it returns a 401 or awaits call_next
dispatch(req) ==
    IF is_public(req.path)
    THEN Allowed
    ELSE LET auth_header == req.authorization IN
         IF is_missing(auth_header)
         THEN Rejected(JSONResponse([error |-> "Missing Authorization header"], 401))
         ELSE IF ~is_bearer(auth_header)
         THEN Rejected(JSONResponse(
                  [error |-> "Invalid Authorization header format. Expected: Bearer <token>"],
                  401))
         ELSE LET token == token_of(auth_header) IN
              IF token_mismatch(token)
              THEN Rejected(JSONResponse([error |-> "Invalid token"], 401))
              ELSE Allowed

(***************************************************************************)
(* The route table of app and Starlette's Router over it.                  *)
(***************************************************************************)
\* Route(path, endpoint): a function endpoint with no methods given serves GET
Route(path, endpoint) ==
    [kind |-> "Route", path |-> path, methods |-> {"GET"}, endpoint |-> endpoint]

Mount(path, endpoint) ==
    [kind |-> "Mount", path |-> rstrip_slash(path), methods |-> Methods,
     endpoint |-> endpoint]

\* variant: the root page is mounted, so that it takes every path below /
custom_routes_mounted ==
    << Mount(<<"/">>, "root"),
       Route(<<"/", "h", "e", "a", "l", "t", "h">>, "health_check") >>

custom_routes ==
    << Route(<<"/">>, "root"),
       Route(<<"/", "h", "e", "a", "l", "t", "h">>, "health_check") >>

\* mcp.sse_app().routes: the stream-open route and the message-post mount
mcp_app_routes ==
    << Route(<<"/", "s", "s", "e">>, "handle_sse"),
       Mount(<<"/", "m", "e", "s", "s", "a", "g", "e", "s", "/">>, "handle_post_message") >>

app_routes == custom_routes \o mcp_app_routes

\* route.matches(scope): "FULL", "PARTIAL" (the path matches, the method does not), "NONE"
Matches(route, method, path) ==
    IF route.kind = "Mount"
    THEN IF startswith(path, route.path \o <<"/">>) THEN "FULL" ELSE "NONE"
    ELSE IF path # route.path THEN "NONE"
         ELSE IF method \in route.methods THEN "FULL" ELSE "PARTIAL"

FirstMatch(kind, method, path) ==
    LET hits == {i \in 1..Len(app_routes) : Matches(app_routes[i], method, path) = kind}
    IN  IF hits = {} THEN 0 ELSE CHOOSE i \in hits : \A j \in hits : i <= j

\* the path the router tries when nothing matched: the trailing slash toggled
redirect_path(path) ==
    IF path[Len(path)] = "/" THEN rstrip_slash(path) ELSE path \o <<"/">>

\* Router.app: the endpoint a forwarded request reaches
Resolve(method, path) ==
    IF FirstMatch("FULL", method, path) # 0
    THEN app_routes[FirstMatch("FULL", method, path)].endpoint
    ELSE IF FirstMatch("PARTIAL", method, path) # 0
    THEN "method_not_allowed"
    ELSE IF /\ path # <<"/">>
            /\ \E i \in 1..Len(app_routes) :
                   Matches(app_routes[i], method, redirect_path(path)) # "NONE"
    THEN "redirect_slashes"
    ELSE "not_found"

(***************************************************************************)
(* The server takes a request off the listener.                            *)
(***************************************************************************)
Receive ==
    /\ pc = "idle"
    /\ \E req \in Requests : request' = req
    /\ pc' = "dispatch"
    /\ filter' = "unchecked"
    /\ forwarded' = <<>>
    /\ handler' = ""
    /\ tool' = ""
    /\ result' = NoResult
    /\ response' = NoResponse
    /\ UNCHANGED <<sessions, metadata, tools, results, observed, rejectedBefore>>

\* variant: the 401 is built but not returned, and the request goes on to call_next
AuthMiddleware_dispatch_fall_through ==
    /\ pc = "dispatch"
    /\ LET d == dispatch(request) IN
       /\ filter' = d.filter
       /\ forwarded' = Append(forwarded, request)
       /\ pc' = "call_next"
       /\ response' = d.response
    /\ UNCHANGED <<request, handler, tool, result, sessions, metadata, tools, results,
                   observed, rejectedBefore>>

(***************************************************************************)
(* AuthMiddleware.dispatch: a rejected request is answered at once, an     *)
(* allowed one is handed to call_next, where dispatch waits for the        *)
(* response of the routes and returns it as it is.                         *)
(***************************************************************************)
AuthMiddleware_dispatch ==
    /\ pc = "dispatch"
    /\ LET d == dispatch(request) IN
       /\ filter' = d.filter
       /\ IF d.filter = "allowed"
          THEN /\ forwarded' = Append(forwarded, request)
               /\ pc' = "call_next"
               /\ UNCHANGED response
          ELSE /\ response' = d.response
               /\ pc' = "respond"
               /\ UNCHANGED forwarded
    /\ UNCHANGED <<request, handler, tool, result, sessions, metadata, tools, results,
                   observed, rejectedBefore>>

\* call_next(request) has reached the endpoint named e
Routed(e) ==
    /\ pc = "call_next"
    /\ forwarded # <<>>
    /\ Resolve(forwarded[1].method, forwarded[1].path) = e

(***************************************************************************)
(* The info endpoints.                                                     *)
(***************************************************************************)
root ==
    /\ Routed("root")
    /\ handler' = "root"
    /\ response' = JSONResponse(
           [name |-> SERVER_NAME,
            version |-> "1.0.0",
            endpoints |-> {"/", "/sse", "/messages", "/health"},
            tools |-> <<"metadata_discovery", "semantic_search", "search_by_criteria">>],
           200)
    /\ pc' = "respond"
    /\ UNCHANGED <<request, filter, forwarded, tool, result, sessions, metadata, tools,
                   results, observed, rejectedBefore>>

health_check ==
    /\ Routed("health_check")
    /\ handler' = "health_check"
    /\ \E now \in 0..MaxTime :
           response' = JSONResponse(
               [status |-> "ok", server |-> SERVER_NAME, version |-> "1.0.0",
                timestamp |-> now],
               200)
    /\ pc' = "respond"
    /\ UNCHANGED <<request, filter, forwarded, tool, result, sessions, metadata, tools,
                   results, observed, rejectedBefore>>

(***************************************************************************)
(* The tool registered on mcp, and the registry's invoke.                  *)
(***************************************************************************)
\* variant: the document is derived from live data, the number of open streams
metadata_discovery_live ==
    [success |-> TRUE,
     data |-> [metadata EXCEPT
                  !.limitations.max_concurrent_queries = 5 - Cardinality(sessions)]]

metadata_discovery == [success |-> TRUE, data |-> metadata]

\* tools/call of the tool `name`: the handler's result, or an error event
call_tool(name) ==
    /\ IF name \in tools
       THEN /\ tool' = name
            /\ result' = [isError |-> FALSE, content |-> metadata_discovery]
            /\ results' = results \cup {metadata_discovery}
       ELSE /\ tool' = ""
            /\ result' = [isError |-> TRUE, content |-> [error |-> "Unknown tool"]]
            /\ UNCHANGED results
    /\ UNCHANGED <<metadata, tools>>

(***************************************************************************)
(* The endpoints of mcp.sse_app(): stream-open and message-post.           *)
(***************************************************************************)
handle_sse ==
    /\ Routed("handle_sse")
    /\ handler' = "handle_sse"
    /\ \E s \in SessionIds \ sessions :
           /\ sessions' = sessions \cup {s}
           /\ response' = JSONResponse([event |-> "endpoint", session_id |-> s], 200)
    /\ pc' = "respond"
    /\ UNCHANGED <<request, filter, forwarded, tool, result, metadata, tools, results,
                   observed, rejectedBefore>>

handle_post_message ==
    /\ Routed("handle_post_message")
    /\ handler' = "handle_post_message"
    /\ LET req == forwarded[1] IN
       IF req.session_id = 0
       THEN /\ response' = JSONResponse([text |-> "session_id is required"], 400)
            /\ UNCHANGED <<tool, result, results, metadata, tools>>
       ELSE IF req.session_id \notin sessions
       THEN /\ response' = JSONResponse([text |-> "Could not find session"], 404)
            /\ UNCHANGED <<tool, result, results, metadata, tools>>
       ELSE IF req.envelope = ""
       THEN /\ response' = JSONResponse([text |-> "Could not parse message"], 400)
            /\ UNCHANGED <<tool, result, results, metadata, tools>>
       ELSE /\ response' = JSONResponse([text |-> "Accepted"], 202)
            /\ call_tool(req.envelope)
    /\ pc' = "respond"
    /\ UNCHANGED <<request, filter, forwarded, sessions, observed, rejectedBefore>>

\* the client of stream s goes away
Disconnect ==
    /\ \E s \in sessions : sessions' = sessions \ {s}
    /\ UNCHANGED <<pc, request, filter, forwarded, handler, tool, result, response,
                   metadata, tools, results, observed, rejectedBefore>>

(***************************************************************************)
(* The router's own answers.                                               *)
(***************************************************************************)
method_not_allowed ==
    /\ Routed("method_not_allowed")
    /\ response' = JSONResponse([text |-> "Method Not Allowed"], 405)
    /\ pc' = "respond"
    /\ UNCHANGED <<request, filter, forwarded, handler, tool, result, sessions, metadata,
                   tools, results, observed, rejectedBefore>>

redirect_slashes ==
    /\ Routed("redirect_slashes")
    /\ response' = JSONResponse([location |-> redirect_path(forwarded[1].path)], 307)
    /\ pc' = "respond"
    /\ UNCHANGED <<request, filter, forwarded, handler, tool, result, sessions, metadata,
                   tools, results, observed, rejectedBefore>>

not_found ==
    /\ Routed("not_found")
    /\ response' = JSONResponse([text |-> "Not Found"], 404)
    /\ pc' = "respond"
    /\ UNCHANGED <<request, filter, forwarded, handler, tool, result, sessions, metadata,
                   tools, results, observed, rejectedBefore>>

(***************************************************************************)
(* The response goes out and the server is ready for the next request.     *)
(* The history variables record the exchange: whether a request has been   *)
(* rejected, and, if this exchange is the one picked, what it was.         *)
(***************************************************************************)
Exchange == [path |-> request.path, authorization |-> request.authorization,
             filter |-> filter, response |-> response, result |-> result]

Respond ==
    /\ pc = "respond"
    /\ pc' = "idle"
    /\ rejectedBefore' = (rejectedBefore \/ filter = "rejected")
    /\ observed' \in {observed, Exchange}
    /\ request' = NoRequest
    /\ filter' = "unchecked"
    /\ forwarded' = <<>>
    /\ handler' = ""
    /\ tool' = ""
    /\ result' = NoResult
    /\ response' = NoResponse
    /\ UNCHANGED <<sessions, metadata, tools, results>>

Next ==
    \/ Receive
    \/ AuthMiddleware_dispatch
    \/ root
    \/ health_check
    \/ handle_sse
    \/ handle_post_message
    \/ Disconnect
    \/ method_not_allowed
    \/ redirect_slashes
    \/ not_found
    \/ Respond

Spec == Init /\ [][Next]_vars

(***************************************************************************)
(* Properties.  The strings below are spelled out here once more, so that  *)
(* the properties do not borrow the definitions they are checked against.  *)
(***************************************************************************)
HealthPath == <<"/", "h", "e", "a", "l", "t", "h">>

RootPath == <<"/">>

BearerSecret ==
    <<"B", "e", "a", "r", "e", "r", " ", "f", "z", "-", "t", "e", "s", "t", "-",
      "1", "2", "3", "4", "5", "6">>

Secret == <<"f", "z", "-", "t", "e", "s", "t", "-", "1", "2", "3", "4", "5", "6">>

\* s begins with the characters of p
HasPrefix(s, p) == Len(s) >= Len(p) /\ \A i \in 1..Len(p) : s[i] = p[i]

\* s without its first n characters
Drop(s, n) == [i \in 1..(IF Len(s) > n THEN Len(s) - n ELSE 0) |-> s[i + n]]

HasBearerPrefix(h) == HasPrefix(h, <<"B", "e", "a", "r", "e", "r", " ">>)

Unauthorized(message) == [status_code |-> 401, body |-> [error |-> message]]

\* the filter has decided on the request in flight
Decided == pc \in {"call_next", "respond"}

\* the request in flight has its response
Answered == pc = "respond"

\* C1: a request is let through to the routes exactly if its path is /health or its
\* Authorization header is exactly "Bearer fz-test-123456"; every other request is
\* answered 401.
C1_AllowedIff ==
    Decided =>
        LET ok == \/ request.path = HealthPath
                  \/ request.authorization = <<BearerSecret>>
        IN  /\ (forwarded # <<>>) <=> ok
            /\ (filter = "allowed") <=> ok
            /\ ~ok => (Answered /\ response.status_code = 401)

\* a request to / carrying exactly the secret was let through and answered
C1_Witness ==
    /\ Answered
    /\ request.path = RootPath
    /\ request.authorization = <<BearerSecret>>
    /\ forwarded = <<request>>
    /\ handler = "root"
    /\ response.status_code = 200

\* C2: the filter decides before any route handler runs; for a rejected request no route
\* handler and no tool handler runs and nothing is passed on; an allowed request is passed
\* to the next stage exactly once and unchanged.
C2_FilterFirst ==
    /\ pc = "dispatch" => (filter = "unchecked" /\ forwarded = <<>> /\ handler = "")
    /\ Decided => filter \in {"allowed", "rejected"}
    /\ filter = "rejected" =>
           /\ forwarded = <<>>
           /\ handler = ""
           /\ tool = ""
           /\ result = NoResult
           /\ Answered
    /\ filter = "allowed" => forwarded = <<request>>
    /\ (handler # "" \/ tool # "") => filter = "allowed"

\* a tool invocation on an open session was rejected and the tool did not run
C2_Witness ==
    /\ Answered
    /\ filter = "rejected"
    /\ request.session_id \in sessions
    /\ request.envelope = "metadata_discovery"
    /\ tool = ""

\* C3 as stated: every request to /health is allowed and the health handler answers 200
\* with status "ok".
C3_HealthAlways200 ==
    (Answered /\ request.path = HealthPath) =>
        /\ filter = "allowed"
        /\ response.status_code # 401
        /\ handler = "health_check"
        /\ response.status_code = 200
        /\ response.body.status = "ok"

\* C3 amended: a request to /health is allowed whatever its Authorization header and is
\* never answered 401; when it is a GET the health handler answers 200 with status "ok",
\* and a POST never reaches the handler: the router answers 405.
C3_HealthPublic ==
    (Decided /\ request.path = HealthPath) =>
        /\ filter = "allowed"
        /\ forwarded = <<request>>
        /\ Answered =>
               /\ response.status_code # 401
               /\ request.method = "GET" =>
                      /\ handler = "health_check"
                      /\ response.status_code = 200
                      /\ response.body.status = "ok"
               /\ request.method = "POST" =>
                      /\ handler = ""
                      /\ response.status_code = 405

\* GET /health with a wrong token was answered 200 by the health handler
C3_Witness ==
    /\ Answered
    /\ request.method = "GET"
    /\ request.path = HealthPath
    /\ request.authorization = << <<"B", "e", "a", "r", "e", "r", " ", "w", "r", "o", "n", "g">> >>
    /\ handler = "health_check"
    /\ response.status_code = 200

\* C4 as stated: off the public paths, every header that is present and does not start
\* with "Bearer ", the empty one included, is answered 401 with the format message.
C4_PresentNotBearer ==
    (/\ Decided
     /\ request.path # HealthPath
     /\ request.authorization # <<>>
     /\ ~HasBearerPrefix(request.authorization[1])) =>
        /\ filter = "rejected"
        /\ response =
               Unauthorized("Invalid Authorization header format. Expected: Bearer <token>")

\* C4 amended: off the public paths, every non-empty header that does not start with
\* "Bearer " is answered 401 with the format message; a header that is present with an
\* empty value is answered 401 with "Missing Authorization header".
C4_NonEmptyNotBearer ==
    (/\ Decided
     /\ request.path # HealthPath
     /\ request.authorization # <<>>
     /\ ~HasBearerPrefix(request.authorization[1])) =>
        /\ filter = "rejected"
        /\ response =
               IF request.authorization[1] = <<>>
               THEN Unauthorized("Missing Authorization header")
               ELSE Unauthorized(
                        "Invalid Authorization header format. Expected: Bearer <token>")

\* the header "Bearer", without the space, was answered with the format message
C4_Witness ==
    /\ Answered
    /\ request.path = RootPath
    /\ request.authorization = << <<"B", "e", "a", "r", "e", "r">> >>
    /\ response =
           Unauthorized("Invalid Authorization header format. Expected: Bearer <token>")

\* C5: off the public paths a request without an Authorization header is answered 401
\* with "Missing Authorization header"; GET / without the header gets that 401 while
\* GET /health without the header gets 200.
C5_MissingHeader ==
    (Decided /\ request.authorization = <<>>) =>
        /\ request.path # HealthPath =>
               /\ filter = "rejected"
               /\ response = Unauthorized("Missing Authorization header")
        /\ (Answered /\ request.method = "GET" /\ request.path = HealthPath) =>
               response.status_code = 200

\* GET / without the header was answered 401
C5_Witness ==
    /\ Answered
    /\ request.method = "GET"
    /\ request.path = RootPath
    /\ request.authorization = <<>>
    /\ response = Unauthorized("Missing Authorization header")

\* C6: off the public paths, for a header that starts with "Bearer ", what follows the
\* 7-character prefix is compared with the secret by equality: a mismatch is answered 401
\* with "Invalid token", a match is allowed.
C6_TokenExact ==
    (/\ Decided
     /\ request.path # HealthPath
     /\ request.authorization # <<>>
     /\ HasBearerPrefix(request.authorization[1])) =>
        IF Drop(request.authorization[1], 7) = Secret
        THEN filter = "allowed" /\ forwarded = <<request>>
        ELSE filter = "rejected" /\ response = Unauthorized("Invalid token")

\* the secret followed by a space was answered "Invalid token"
C6_Witness ==
    /\ Answered
    /\ request.path = RootPath
    /\ request.authorization = <<BearerSecret \o <<" ">> >>
    /\ response = Unauthorized("Invalid token")

\* C7 as stated: every value metadata_discovery returns has success true and lists in
\* data.available_tools exactly the tools registered on the server.
C7_ToolsListed ==
    \A r \in results :
        /\ r.success = TRUE
        /\ {r.data.available_tools[i].name : i \in 1..Len(r.data.available_tools)} = tools

\* C8: metadata_discovery returns the same {success: true, data: <document>} whenever it
\* is invoked, and neither the document nor the registry changes while requests are
\* handled.
C8_SameDocument ==
    /\ metadata = METADATA_DISCOVERY_DATA
    /\ tools = {"metadata_discovery"}
    /\ \A r \in results : r = [success |-> TRUE, data |-> METADATA_DISCOVERY_DATA]
    /\ \A r1, r2 \in results : r1 = r2
    /\ (tool = "metadata_discovery" /\ ~observed.result.isError
            /\ observed.result # NoResult) =>
           result = observed.result

\* the tool was invoked, requests were rejected in between, and it was invoked again
C8_Witness ==
    /\ Answered
    /\ rejectedBefore
    /\ tool = "metadata_discovery"
    /\ observed.result # NoResult
    /\ ~observed.result.isError
    /\ result.content.success = TRUE

\* C9 as stated: every request to a path other than /, /health, /sse and /messages is
\* answered 404.
C9_Other404 ==
    (Answered /\ request.path \notin
         {RootPath, HealthPath, <<"/", "s", "s", "e">>,
          <<"/", "m", "e", "s", "s", "a", "g", "e", "s">>}) =>
        response.status_code = 404

\* the paths that reach no route, with or without a trailing slash
Unrouted(path) ==
    /\ path \notin {RootPath, HealthPath, <<"/", "s", "s", "e">>}
    /\ ~HasPrefix(path, <<"/", "m", "e", "s", "s", "a", "g", "e", "s", "/">>)
    /\ path \o <<"/">> \notin
           {HealthPath, <<"/", "s", "s", "e">>,
            <<"/", "m", "e", "s", "s", "a", "g", "e", "s", "/">>}
    /\ path[Len(path)] = "/" =>
           \A n \in 1..Len(path) :
               (\A i \in n..Len(path) : path[i] = "/") =>
                   [i \in 1..(n - 1) |-> path[i]] \notin
                       {HealthPath, <<"/", "s", "s", "e">>}

\* C9 amended: a request whose path reaches no route, with or without a trailing slash,
\* is answered 404 when it carries the valid bearer token and 401 when it does not.
C9_Unrouted404 ==
    (Answered /\ Unrouted(request.path)) =>
        IF request.authorization = <<BearerSecret>>
        THEN response.status_code = 404 /\ response.body = [text |-> "Not Found"]
        ELSE response.status_code = 401

\* /foo with the valid token was answered 404
C9_Witness ==
    /\ Answered
    /\ request.path = <<"/", "f", "o", "o">>
    /\ request.authorization = <<BearerSecret>>
    /\ response.status_code = 404

\* C10: whatever was served before, the filter's outcome for a request (allowed, or
\* rejected with its 401 body) is the same for the same path and Authorization header,
\* and the server goes on taking and checking requests.
C10_Stateless ==
    /\ (/\ Decided
        /\ observed # NoExchange
        /\ observed.path = request.path
        /\ observed.authorization = request.authorization) =>
           /\ observed.filter = filter
           /\ filter = "rejected" => observed.response = response
    /\ pc = "idle" => ENABLED Receive
    /\ pc = "dispatch" => ENABLED AuthMiddleware_dispatch

\* after some request was rejected, a request allowed earlier is allowed again
C10_Witness ==
    /\ Answered
    /\ rejectedBefore
    /\ observed.path = request.path
    /\ observed.authorization = request.authorization
    /\ request.path = RootPath
    /\ observed.filter = "allowed"
    /\ filter = "allowed"

=============================================================================
